---------------------------- MODULE Spec2Model ----------------------------
(***************************************************************************)
(* Course Planner (CSS499Category3.py): the course store, the credential   *)
(* store and the login / administrator session of the menu loop.           *)
(*                                                                         *)
(* Strings are sequences of character codes (32 space, 48..57 digits,      *)
(* 65..90 upper case, 97..122 lower case), so that strip(), lower(),       *)
(* upper(), title(), split() and join() are computed, not assumed.         *)
(* The two SQLite files are modelled by their committed content; the main  *)
(* course connection conn_courses additionally has the content it sees     *)
(* inside its open (uncommitted) transaction.                              *)
(***************************************************************************)
EXTENDS Integers, Sequences, FiniteSets, TLC

VARIABLES
    pc,                 \* position of the process: start, menu, login, admin, exited, crashed
    option,             \* main(): option while login() waits for a pair; "" at the
                        \* menu prompt, where line 354 overwrites it before any use
    user_choice,        \* main(): user_choice
    data_loaded,        \* main(): data_loaded
    user_authenticated, \* main(): user_authenticated
    login_failed,       \* login(): the pair typed last was rejected ("Login
                        \* failed. Please try again."), the loop asks again
    course_table,       \* course_database.db: the table "courses" exists
    course_rows,        \* course_database.db: committed rows of "courses"
    conn_rows,          \* rows of "courses" as conn_courses sees them
    in_transaction,     \* conn_courses has an open write transaction
    user_database,      \* user_database.db exists on disk
    users,              \* user_database.db: committed rows of "users"
    courselist_csv,     \* content of courselist.csv, or Missing
    userlist_csv        \* content of userlist.csv, or Missing

vars == <<pc, option, user_choice, data_loaded, user_authenticated,
          login_failed, course_table, course_rows, conn_rows, in_transaction,
          user_database, users, courselist_csv, userlist_csv>>

session_vars == <<user_choice, data_loaded, user_authenticated>>
course_vars  == <<course_table, course_rows, conn_rows, in_transaction>>
user_vars    == <<user_database, users>>
file_vars    == <<courselist_csv, userlist_csv>>

-----------------------------------------------------------------------------
(* Bounds of the model *)

\* longest courselist.csv, in rows
MaxRows == 2

-----------------------------------------------------------------------------
(* Strings *)

IsSpace(c) == c = 32
IsUpper(c) == c \in 65..90
IsLower(c) == c \in 97..122
IsDigit(c) == c \in 48..57
IsAlpha(c) == IsUpper(c) \/ IsLower(c)

LowerChar(c) == IF IsUpper(c) THEN c + 32 ELSE c
UpperChar(c) == IF IsLower(c) THEN c - 32 ELSE c

\* str.lower()
Lower(s) == [i \in 1..Len(s) |-> LowerChar(s[i])]
\* str.upper()
Upper(s) == [i \in 1..Len(s) |-> UpperChar(s[i])]
\* str.title(): first letter of every run of letters upper case, the rest lower
Title(s) == [i \in 1..Len(s) |->
               IF i = 1 \/ ~IsAlpha(s[i-1]) THEN UpperChar(s[i]) ELSE LowerChar(s[i])]

RECURSIVE LStrip(_)
LStrip(s) == IF s # <<>> /\ IsSpace(Head(s)) THEN LStrip(Tail(s)) ELSE s
RECURSIVE RStrip(_)
RStrip(s) == IF s # <<>> /\ IsSpace(s[Len(s)])
             THEN RStrip(SubSeq(s, 1, Len(s) - 1)) ELSE s
\* str.strip()
Strip(s) == RStrip(LStrip(s))

\* str.split(sep): the pieces between separators, empty pieces included
RECURSIVE SplitOn(_, _, _)
SplitOn(s, sep, cur) ==
    IF s = <<>> THEN <<cur>>
    ELSE IF Head(s) = sep THEN <<cur>> \o SplitOn(Tail(s), sep, <<>>)
    ELSE SplitOn(Tail(s), sep, Append(cur, Head(s)))

\* str.split(): the maximal runs of non-blank characters
RECURSIVE SplitWs(_, _)
SplitWs(s, cur) ==
    IF s = <<>> THEN (IF cur = <<>> THEN <<>> ELSE <<cur>>)
    ELSE IF IsSpace(Head(s))
         THEN (IF cur = <<>> THEN <<>> ELSE <<cur>>) \o SplitWs(Tail(s), <<>>)
    ELSE SplitWs(Tail(s), Append(cur, Head(s)))
Split(s) == SplitWs(s, <<>>)

\* the sequence of 1-character strings of s: what iterating a str yields
Chars(s) == [i \in 1..Len(s) |-> <<s[i]>>]

\* ', '.join(parts)
RECURSIVE Join(_)
Join(parts) ==
    IF parts = <<>> THEN <<>>
    ELSE IF Len(parts) = 1 THEN parts[1]
    ELSE parts[1] \o <<44, 32>> \o Join(Tail(parts))

\* [p.strip() for p in parts if p.strip()]
RECURSIVE StripNonEmpty(_)
StripNonEmpty(parts) ==
    IF parts = <<>> THEN <<>>
    ELSE (IF Strip(Head(parts)) = <<>> THEN <<>> ELSE <<Strip(Head(parts))>>)
         \o StripNonEmpty(Tail(parts))

\* int(s): blanks around an unsigned decimal number; anything else is ValueError
RECURSIVE DigitsValue(_, _)
DigitsValue(s, acc) ==
    IF s = <<>> THEN acc ELSE DigitsValue(Tail(s), 10 * acc + (Head(s) - 48))
ParseInt(s) ==
    LET t == Strip(s)
    IN  IF t # <<>> /\ \A i \in 1..Len(t) : IsDigit(t[i])
        THEN [ok |-> TRUE, val |-> DigitsValue(t, 0)]
        ELSE [ok |-> FALSE, val |-> 0]

\* byte-wise string order, the order of ORDER BY on a TEXT column
RECURSIVE StrLess(_, _)
StrLess(s, t) ==
    IF t = <<>> THEN FALSE
    ELSE IF s = <<>> THEN TRUE
    ELSE IF Head(s) # Head(t) THEN Head(s) < Head(t)
    ELSE StrLess(Tail(s), Tail(t))

\* the literals of the program
S_admin == <<97, 100, 109, 105, 110>>      \* "admin"
S_None  == <<78, 111, 110, 101>>           \* "None"
S_none  == <<110, 111, 110, 101>>          \* "none"
S_y     == <<121>>                         \* "y"
S_n     == <<110>>                         \* "n"

\* a text file: its lines, split into fields by csv.reader, or no file at all
File(lines) == [exists |-> TRUE, lines |-> lines]
Missing == [exists |-> FALSE, lines |-> <<>>]

-----------------------------------------------------------------------------
(* Tables *)

\* class Course / a row of "courses": all columns are TEXT
CourseRow(id, title, credits, description, prerequisites) ==
    [id |-> id, title |-> title, credits |-> credits,
     description |-> description, prerequisites |-> prerequisites]

UserRow(username, password) == [username |-> username, password |-> password]

\* the PRIMARY KEY of a table: INSERT of a present key raises IntegrityError
HasId(rows, id) == \E r \in rows : r.id = id
HasUser(rows, username) == \E r \in rows : r.username = username

\* SELECT ... ORDER BY id
RECURSIVE OrderById(_)
OrderById(rows) ==
    IF rows = {} THEN <<>>
    ELSE LET first == CHOOSE r \in rows :
                         \A q \in rows : q.id = r.id \/ StrLess(r.id, q.id)
         IN  <<first>> \o OrderById(rows \ {first})

\* SELECT ... ORDER BY username
RECURSIVE OrderByUsername(_)
OrderByUsername(rows) ==
    IF rows = {} THEN <<>>
    ELSE LET first == CHOOSE r \in rows :
                         \A q \in rows : q.username = r.username
                                            \/ StrLess(r.username, q.username)
         IN  <<first>> \o OrderByUsername(rows \ {first})

-----------------------------------------------------------------------------
(* load_course_data *)

\* the row inserted for one line of courselist.csv with at least 4 fields
CourseOfCsvRow(row) ==
    LET prerequisites == IF Len(row) > 4 THEN Split(row[5]) ELSE Chars(S_None)
    IN  CourseRow(row[1], row[2], row[3], row[4], Join(prerequisites))

\* the for loop over the reader: txn is the content inside the transaction
RECURSIVE InsertCsvRows(_, _)
InsertCsvRows(txn, file) ==
    IF file = <<>> THEN [status |-> "ok", rows |-> txn]
    ELSE LET row == Head(file)
         IN  IF Len(row) >= 4
             THEN IF HasId(txn, row[1])
                  THEN [status |-> "integrity", rows |-> txn]
                  ELSE InsertCsvRows(txn \cup {CourseOfCsvRow(row)}, Tail(file))
             ELSE [status |-> "format", rows |-> txn]

\* a load that commits the rows inserted before the malformed one
load_course_data_KeepsRows(prior, file, locked) ==
    IF file = Missing THEN [status |-> "missing", rows |-> prior]
    ELSE IF locked THEN [status |-> "locked", rows |-> prior]
    ELSE LET r == InsertCsvRows({}, file.lines)
         IN  IF r.status \in {"ok", "format"}
             THEN [status |-> r.status, rows |-> r.rows]
             ELSE [status |-> r.status, rows |-> prior]

\* a load without DELETE FROM courses
load_course_data_NoDelete(prior, file, locked) ==
    IF file = Missing THEN [status |-> "missing", rows |-> prior]
    ELSE IF locked THEN [status |-> "locked", rows |-> prior]
    ELSE LET r == InsertCsvRows(prior, file.lines)
         IN  IF r.status = "ok"
             THEN [status |-> "ok", rows |-> r.rows]
             ELSE [status |-> r.status, rows |-> prior]

\* load_course_data on its own connection: prior is the committed content,
\* locked tells that another connection holds the write lock.  The result is
\* the committed content afterwards and how the call ended: "ok" (True),
\* "format" / "missing" (False), "integrity" / "locked" (exception raised).
load_course_data(prior, file, locked) ==
    IF file = Missing THEN [status |-> "missing", rows |-> prior]
    ELSE IF locked THEN [status |-> "locked", rows |-> prior]
    ELSE LET r == InsertCsvRows({}, file.lines)  \* after DELETE FROM courses
         IN  IF r.status = "ok"
             THEN [status |-> "ok", rows |-> r.rows]          \* conn.commit()
             ELSE [status |-> r.status, rows |-> prior]       \* rolled back

-----------------------------------------------------------------------------
(* add_course, delete_course, listing and details *)

\* an add that replaces a stored course without asking
add_course_NoConfirm(rows, id_in, title_in, credits_in, description_in, prereq_in, confirm_in) ==
    LET id == Upper(Strip(id_in))
        entered == IF prereq_in = <<>> THEN S_None ELSE prereq_in
        prerequisites == StripNonEmpty(SplitOn(entered, 32, <<>>))
        course == CourseRow(id, Title(title_in), credits_in, description_in,
                            Join(prerequisites))
    IN  [rows |-> {r \in rows : r.id # id} \cup {course},
         wrote |-> TRUE, msg |-> IF HasId(rows, id) THEN "replaced" ELSE "added"]

\* an add that stores the id as typed, blanks stripped
add_course_KeepsCase(rows, id_in, title_in, credits_in, description_in, prereq_in, confirm_in) ==
    LET id == Strip(id_in)
        entered == IF prereq_in = <<>> THEN S_None ELSE prereq_in
        prerequisites == StripNonEmpty(SplitOn(entered, 32, <<>>))
        course == CourseRow(id, Title(title_in), credits_in, description_in,
                            Join(prerequisites))
    IN  IF HasId(rows, id)
        THEN IF Lower(Strip(confirm_in)) = S_y
             THEN [rows |-> {r \in rows : r.id # id} \cup {course},
                   wrote |-> TRUE, msg |-> "replaced"]
             ELSE [rows |-> rows, wrote |-> FALSE, msg |-> "not replaced"]
        ELSE [rows |-> rows \cup {course}, wrote |-> TRUE, msg |-> "added"]

\* add_course with data_loaded true: the rows conn_courses sees afterwards
add_course(rows, id_in, title_in, credits_in, description_in, prereq_in, confirm_in) ==
    LET id == Upper(Strip(id_in))
        entered == IF prereq_in = <<>> THEN S_None ELSE prereq_in
        prerequisites == StripNonEmpty(SplitOn(entered, 32, <<>>))
        course == CourseRow(id, Title(title_in), credits_in, description_in,
                            Join(prerequisites))
    IN  IF HasId(rows, id)
        THEN IF Lower(Strip(confirm_in)) = S_y
             THEN [rows |-> {r \in rows : r.id # id} \cup {course},
                   wrote |-> TRUE, msg |-> "replaced"]
             ELSE [rows |-> rows, wrote |-> FALSE, msg |-> "not replaced"]
        ELSE [rows |-> rows \cup {course}, wrote |-> TRUE, msg |-> "added"]

\* a delete that removes the selected course without asking
delete_course_NoConfirm(rows, choice_in, confirm_in) ==
    LET courses == OrderById(rows)
        choice == ParseInt(choice_in)
    IN  IF Len(courses) = 0
        THEN [rows |-> rows, wrote |-> FALSE, msg |-> "no courses"]
        ELSE IF ~choice.ok
        THEN [rows |-> rows, wrote |-> FALSE, msg |-> "invalid input"]
        ELSE IF 1 <= choice.val /\ choice.val <= Len(courses)
        THEN [rows |-> {r \in rows : r.id # courses[choice.val].id},
              wrote |-> TRUE, msg |-> "deleted"]
        ELSE [rows |-> rows, wrote |-> FALSE, msg |-> "invalid choice"]

\* delete_course with data_loaded true
delete_course(rows, choice_in, confirm_in) ==
    LET courses == OrderById(rows)
        choice == ParseInt(choice_in)
    IN  IF Len(courses) = 0
        THEN [rows |-> rows, wrote |-> FALSE, msg |-> "no courses"]
        ELSE IF ~choice.ok
        THEN [rows |-> rows, wrote |-> FALSE, msg |-> "invalid input"]
        ELSE IF 1 <= choice.val /\ choice.val <= Len(courses)
        THEN IF Lower(confirm_in) = S_y
             THEN [rows |-> {r \in rows : r.id # courses[choice.val].id},
                   wrote |-> TRUE, msg |-> "deleted"]
             ELSE [rows |-> rows, wrote |-> FALSE, msg |-> "canceled"]
        ELSE [rows |-> rows, wrote |-> FALSE, msg |-> "invalid choice"]

\* print_course_list: the printed (id, title) lines
print_course_list(rows) ==
    LET courses == OrderById(rows)
    IN  [i \in 1..Len(courses) |-> <<courses[i].id, courses[i].title>>]

\* word_wrap raises IndexError on a text without words
word_wrap_raises(text) == Split(text) = <<>>

\* print_course_details: the text printed after "Prerequisites: "
print_course_details(course) ==
    IF Lower(course.prerequisites) = S_none THEN S_None ELSE course.prerequisites

\* option 3: SELECT * FROM courses WHERE id = upper(strip(input))
course_details(rows, id_in) ==
    LET found == {r \in rows : r.id = Upper(Strip(id_in))}
    IN  IF found = {} THEN [status |-> "not found", prerequisites |-> <<>>]
        ELSE LET course == CHOOSE r \in found : TRUE
             IN  IF word_wrap_raises(course.description)
                 THEN [status |-> "raised", prerequisites |-> <<>>]
                 ELSE [status |-> "printed",
                       prerequisites |-> print_course_details(course)]

-----------------------------------------------------------------------------
(* Credential store *)

\* a login that looks the username up and does not compare the password
login_AnyPassword(rows, username_in, password) ==
    LET username == Lower(Strip(username_in))
    IN  \/ username = S_admin /\ password = S_admin
        \/ \E r \in rows : r.username = username

\* login: one pass of the while loop; TRUE when it returns True
login(rows, username_in, password) ==
    LET username == Lower(Strip(username_in))
    IN  \/ username = S_admin /\ password = S_admin
        \/ \E r \in rows : r.username = username /\ r.password = password

\* a check of option "*" that accepts what login accepts
admin_check_AnyLogin(username_in, password) ==
    LET username == Lower(Strip(username_in))
    IN  \/ username = S_admin /\ password = S_admin
        \/ \E r \in users : r.username = username /\ r.password = password

\* the check of option "*"
admin_check(username_in, password) ==
    Lower(Strip(username_in)) = S_admin /\ password = S_admin

\* a listing that prints the stored password
list_users_Plain(rows) ==
    LET ordered == OrderByUsername(rows)
    IN  [i \in 1..Len(ordered) |-> <<ordered[i].username, ordered[i].password>>]

\* list_users: the printed (username, mask) lines
list_users(rows) ==
    LET ordered == OrderByUsername(rows)
    IN  [i \in 1..Len(ordered) |->
           <<ordered[i].username, [k \in 1..Len(ordered[i].password) |-> 42]>>]

\* an add that overwrites the password of a stored username
add_user_Replaces(rows, username_in, password) ==
    LET username == Lower(Strip(username_in))
    IN  {r \in rows : r.username # username} \cup {UserRow(username, password)}

\* add_user: the committed rows of "users" afterwards
add_user(rows, username_in, password) ==
    LET username == Lower(Strip(username_in))
    IN  IF HasUser(rows, username) THEN rows
        ELSE rows \cup {UserRow(username, password)}

\* a delete without the test for "admin"
delete_user_Unprotected(rows, username_in) ==
    LET username == Lower(Strip(username_in))
    IN  IF HasUser(rows, username)
        THEN {r \in rows : r.username # username}
        ELSE rows

delete_user(rows, username_in) ==
    LET username == Lower(Strip(username_in))
    IN  IF username = S_admin THEN rows
        ELSE IF HasUser(rows, username)
        THEN {r \in rows : r.username # username}
        ELSE rows

\* the for loop of load_user_data
RECURSIVE InsertUserRows(_, _)
InsertUserRows(txn, file) ==
    IF file = <<>> THEN [status |-> "ok", rows |-> txn]
    ELSE LET row == Head(file)
         IN  IF Len(row) >= 2
             THEN IF HasUser(txn, Lower(Strip(row[1])))
                  THEN [status |-> "integrity", rows |-> txn]
                  ELSE InsertUserRows(
                           txn \cup {UserRow(Lower(Strip(row[1])), row[2])},
                           Tail(file))
             ELSE [status |-> "format", rows |-> txn]

\* load_user_data: there is no DELETE, the rows are added to the prior ones
load_user_data(prior, file) ==
    IF file = Missing THEN [status |-> "missing", rows |-> prior]
    ELSE LET r == InsertUserRows(prior, file.lines)
         IN  IF r.status = "ok"
             THEN [status |-> "ok", rows |-> r.rows]
             ELSE [status |-> r.status, rows |-> prior]

\* sqlite3.connect(path) creates the file: whether it exists afterwards
connect(exists) == TRUE

-----------------------------------------------------------------------------
(* What the user types and what the files hold *)

\* lines of courselist.csv: "B,u,3,d"  "a,t,3,d,"  "C,t"
CsvRows ==
    { <<<<66>>, <<117>>, <<51>>, <<100>>>>,
      <<<<97>>, <<116>>, <<51>>, <<100>>, <<>>>>,
      <<<<67>>, <<116>>>> }

CourseFiles ==
    {Missing} \cup {File(lines) : lines \in UNION {[1..n -> CsvRows] : n \in 0..MaxRows}}

\* userlist.csv: the one line "Bob ,p"
UserFiles == {File(<< <<<<66, 111, 98, 32>>, <<112>>>> >>)}

\* "admin"  " Admin"  "b"
UsernameInputs == {S_admin, <<32, 65, 100, 109, 105, 110>>, <<98>>}
\* "admin"  "p"
PasswordInputs == {S_admin, <<112>>}
\* the password typed for a new user: "p"
NewPasswordInputs == {<<112>>}
\* "y"  " Y"  "n"
ConfirmInputs == {S_y, <<32, 89>>, S_n}
\* the id typed for a new course: " b"
CourseIdInputs == {<<32, 98>>}
\* the id typed for the details: " b"  "a"
DetailsIdInputs == {<<32, 98>>, <<97>>}
\* "t u"
TitleInputs == {<<116, 32, 117>>}
\* "3"
CreditsInputs == {<<51>>}
\* "d"
DescriptionInputs == {<<100>>}
\* ""  "a  b"
PrereqInputs == {<<>>, <<97, 32, 32, 98>>}
\* "1"  " 2"  "9"  "x"
ChoiceInputs == {<<49>>, <<32, 50>>, <<57>>, <<120>>}
\* " a"  "B"  "c"  "r"  "x"
UserOptionInputs == {<<32, 97>>, <<66>>, <<99>>, <<114>>, <<120>>}

-----------------------------------------------------------------------------
(* The process *)

Init ==
    /\ pc = "start"
    /\ option = ""
    /\ user_choice = ""
    /\ data_loaded = FALSE
    /\ user_authenticated = FALSE
    /\ login_failed = FALSE
    /\ course_table = FALSE
    /\ course_rows = {}
    /\ conn_rows = {}
    /\ in_transaction = FALSE
    /\ user_database = FALSE
    /\ users = {}
    /\ courselist_csv \in CourseFiles
    /\ userlist_csv \in UserFiles

\* an uncaught exception ends the process: the open transaction is lost
Raise ==
    /\ pc' = "crashed"
    /\ conn_rows' = course_rows
    /\ in_transaction' = FALSE
    /\ UNCHANGED <<course_table, course_rows>>

\* lines 330-348: the process starts, on the files the earlier runs left
Start ==
    /\ pc \in {"start", "exited", "crashed"}
    /\ option' = ""
    /\ user_choice' = ""
    /\ user_authenticated' = FALSE
    /\ login_failed' = FALSE
    /\ user_database' = connect(user_database)
    /\ IF ~user_database'
       THEN LET r == load_user_data(users, userlist_csv)
            IN  /\ users' = r.rows
                /\ data_loaded' = (r.status \in {"ok"})
                /\ pc' = IF r.status = "integrity" THEN "crashed" ELSE "menu"
       ELSE /\ data_loaded' = TRUE
            /\ users' = users
            /\ pc' = "menu"
    /\ UNCHANGED <<course_vars, file_vars>>

\* line 357: an option that is not on the menu
InvalidOption ==
    /\ pc = "menu"
    /\ option' = ""
    /\ UNCHANGED <<pc, session_vars, course_vars, user_vars, file_vars>>
    /\ UNCHANGED login_failed

\* lines 363 and 414: data_loaded = load_course_data(cursor_courses), on the
\* committed content prior; locked when conn_courses holds the write lock
RunLoad(prior, locked) ==
    LET r == load_course_data(prior, courselist_csv, locked)
    IN  /\ course_table' = TRUE
        /\ course_rows' = r.rows
        /\ conn_rows' = r.rows
        /\ in_transaction' = FALSE
        /\ IF r.status \in {"integrity", "locked"}
           THEN pc' = "crashed" /\ UNCHANGED data_loaded
           ELSE pc' = "menu" /\ data_loaded' = (r.status = "ok")

\* option 1
LoadOption ==
    /\ pc = "menu"
    /\ option' = ""
    /\ IF ~data_loaded \/ user_choice = "1"
       THEN RunLoad(course_rows, in_transaction)
       ELSE UNCHANGED <<pc, data_loaded, course_vars>>
    /\ UNCHANGED <<user_choice, user_authenticated, user_vars, file_vars>>
    /\ UNCHANGED login_failed

\* option 2
ListOption ==
    /\ pc = "menu"
    /\ option' = ""
    /\ IF data_loaded /\ ~course_table
       THEN Raise                                 \* no such table: courses
       ELSE UNCHANGED <<pc, course_vars>>
    /\ UNCHANGED <<session_vars, user_vars, file_vars>>
    /\ UNCHANGED login_failed

\* option 3
DetailsOption(id_in) ==
    /\ pc = "menu"
    /\ option' = ""
    /\ IF data_loaded
          /\ (~course_table \/ course_details(conn_rows, id_in).status = "raised")
       THEN Raise
       ELSE UNCHANGED <<pc, course_vars>>
    /\ UNCHANGED <<session_vars, user_vars, file_vars>>
    /\ UNCHANGED login_failed

\* an exit that commits whatever is answered
ExitOption_AlwaysCommits(save_in) ==
    /\ pc = "menu"
    /\ option' = ""
    /\ pc' = "exited"
    /\ course_rows' = conn_rows /\ conn_rows' = conn_rows
    /\ in_transaction' = FALSE
    /\ UNCHANGED <<course_table, session_vars, user_vars, file_vars>>
    /\ UNCHANGED login_failed

\* option 0
ExitOption(save_in) ==
    /\ pc = "menu"
    /\ option' = ""
    /\ pc' = "exited"
    /\ IF Lower(Strip(save_in)) = S_y
       THEN course_rows' = conn_rows /\ conn_rows' = conn_rows  \* commit()
       ELSE course_rows' = course_rows /\ conn_rows' = course_rows  \* close()
    /\ in_transaction' = FALSE
    /\ UNCHANGED <<course_table, session_vars, user_vars, file_vars>>
    /\ UNCHANGED login_failed

\* lines 402-403: add_course(cursor_courses, data_loaded)
RunAdd(id_in, title_in, credits_in, description_in, prereq_in, confirm_in) ==
    IF ~data_loaded
    THEN pc' = "menu" /\ UNCHANGED <<data_loaded, course_vars>>
    ELSE IF ~course_table
    THEN Raise /\ UNCHANGED data_loaded
    ELSE LET r == add_course(conn_rows, id_in, title_in, credits_in,
                             description_in, prereq_in, confirm_in)
         IN  /\ pc' = "menu"
             /\ conn_rows' = r.rows
             /\ in_transaction' = (in_transaction \/ r.wrote)
             /\ UNCHANGED <<data_loaded, course_table, course_rows>>

\* lines 404-405: delete_course(cursor_courses, data_loaded)
RunDelete(choice_in, confirm_in) ==
    IF ~data_loaded
    THEN pc' = "menu" /\ UNCHANGED <<data_loaded, course_vars>>
    ELSE IF ~course_table
    THEN Raise /\ UNCHANGED data_loaded
    ELSE LET r == delete_course(conn_rows, choice_in, confirm_in)
         IN  /\ pc' = "menu"
             /\ conn_rows' = r.rows
             /\ in_transaction' = (in_transaction \/ r.wrote)
             /\ UNCHANGED <<data_loaded, course_table, course_rows>>

\* lines 406-418: the reset of option 6
RunReset(confirm_in) ==
    IF Lower(Strip(confirm_in)) = S_y
    THEN \* close() drops the open transaction, os.remove() the file
         RunLoad({}, FALSE)
    ELSE pc' = "menu" /\ UNCHANGED <<data_loaded, course_vars>>

\* a gate that never asks for login
login_required_Never(authenticated) == FALSE

\* line 394: an option that requires login asks for it
login_required(authenticated) == ~authenticated

\* lines 391-401: option 4, 5 or 6 up to the operation; the login prompt is
\* entered instead of the operation when login is required
GateOption(opt) ==
    /\ pc = "menu"
    /\ option' = (IF login_required(user_authenticated) THEN opt ELSE "")
    /\ user_choice' = IF user_authenticated \/ user_choice = opt
                      THEN opt ELSE user_choice
    /\ UNCHANGED <<user_authenticated, user_vars, file_vars>>
    /\ UNCHANGED login_failed

EnterLogin ==
    /\ pc' = "login"
    /\ UNCHANGED <<data_loaded, course_vars>>

\* option 4
AddOption(id_in, title_in, credits_in, description_in, prereq_in, confirm_in) ==
    /\ GateOption("4")
    /\ IF login_required(user_authenticated)
       THEN EnterLogin
       ELSE RunAdd(id_in, title_in, credits_in, description_in, prereq_in,
                   confirm_in)

\* option 5
DeleteOption(choice_in, confirm_in) ==
    /\ GateOption("5")
    /\ IF login_required(user_authenticated)
       THEN EnterLogin
       ELSE RunDelete(choice_in, confirm_in)

\* option 6
ResetOption(confirm_in) ==
    /\ GateOption("6")
    /\ IF login_required(user_authenticated)
       THEN EnterLogin
       ELSE RunReset(confirm_in)

\* login(): a pair is typed that is not accepted; line 136 prints "Login
\* failed. Please try again." and the loop asks again
LoginRetry(username_in, password) ==
    /\ pc = "login"
    /\ ~login(users, username_in, password)
    /\ login_failed' = TRUE
    /\ UNCHANGED <<pc, option, session_vars, course_vars, user_vars, file_vars>>

\* login() returns True (line 396) and the operation of the option follows
LoginReturn(opt, username_in, password) ==
    /\ pc = "login"
    /\ option = opt
    /\ login(users, username_in, password)
    /\ user_authenticated' = TRUE
    /\ login_failed' = FALSE
    /\ option' = ""
    /\ UNCHANGED <<user_choice, user_vars, file_vars>>

LoginAdd(username_in, password, id_in, title_in, credits_in, description_in, prereq_in, confirm_in) ==
    /\ LoginReturn("4", username_in, password)
    /\ RunAdd(id_in, title_in, credits_in, description_in, prereq_in, confirm_in)

LoginDelete(username_in, password, choice_in, confirm_in) ==
    /\ LoginReturn("5", username_in, password)
    /\ RunDelete(choice_in, confirm_in)

LoginReset(username_in, password, confirm_in) ==
    /\ LoginReturn("6", username_in, password)
    /\ RunReset(confirm_in)

\* an option "*" whose denial also ends the authentication
AdminOption_DeniedLogsOut(username_in, password) ==
    /\ pc = "menu"
    /\ option' = ""
    /\ IF admin_check(username_in, password)
       THEN /\ user_choice' = "*"
            /\ user_authenticated' = TRUE
            /\ pc' = "admin"
       ELSE /\ user_authenticated' = FALSE
            /\ UNCHANGED <<pc, user_choice>>
    /\ UNCHANGED <<data_loaded, course_vars, user_vars, file_vars>>
    /\ UNCHANGED login_failed

\* lines 421-445: option "*", the check that opens the user management menu
AdminOption(username_in, password) ==
    /\ pc = "menu"
    /\ option' = ""
    /\ IF admin_check(username_in, password)
       THEN /\ user_choice' = "*"
            /\ user_authenticated' = TRUE
            /\ pc' = "admin"
       ELSE UNCHANGED <<pc, user_choice, user_authenticated>>
    /\ UNCHANGED <<data_loaded, course_vars, user_vars, file_vars>>
    /\ UNCHANGED login_failed

\* line 432: the option typed at the user management menu
user_option(option_in) == Upper(Strip(option_in))

\* lines 430-443: one pass of the user management menu that stays in it
UserMenu(option_in) ==
    /\ pc = "admin"
    /\ UNCHANGED <<pc, option, session_vars, course_vars, user_database, file_vars>>
    /\ UNCHANGED login_failed

\* option A
ListUsersOption(option_in) ==
    /\ user_option(option_in) = <<65>>
    /\ UserMenu(option_in)
    /\ UNCHANGED users

\* option B
AddUserOption(option_in, username_in, password) ==
    /\ user_option(option_in) = <<66>>
    /\ UserMenu(option_in)
    /\ users' = add_user(users, username_in, password)

\* option C
DeleteUserOption(option_in, username_in) ==
    /\ user_option(option_in) = <<67>>
    /\ UserMenu(option_in)
    /\ users' = delete_user(users, username_in)

\* a return that keeps the authentication
ReturnOption_KeepsSession(option_in) ==
    /\ user_option(option_in) = <<82>>
    /\ pc = "admin"
    /\ pc' = "menu"
    /\ UNCHANGED <<option, session_vars, course_vars, user_vars, file_vars>>
    /\ UNCHANGED login_failed

\* option R
ReturnOption(option_in) ==
    /\ user_option(option_in) = <<82>>
    /\ pc = "admin"
    /\ user_authenticated' = FALSE
    /\ pc' = "menu"
    /\ UNCHANGED <<option, user_choice, data_loaded, course_vars, user_vars, file_vars>>
    /\ UNCHANGED login_failed

\* any other line
InvalidUserOption(option_in) ==
    /\ user_option(option_in) \notin {<<65>>, <<66>>, <<67>>, <<82>>}
    /\ UserMenu(option_in)
    /\ UNCHANGED users

\* one edit of a file: it is created empty or removed, or a line is added at
\* its end or taken from its end
EditsOf(file) ==
    IF ~file.exists THEN {File(<<>>)}
    ELSE {Missing}
         \cup {File(Append(file.lines, row)) : row \in
                   IF Len(file.lines) < MaxRows THEN CsvRows ELSE {}}
         \cup {File(SubSeq(file.lines, 1, Len(file.lines) - 1)) : k \in
                   IF Len(file.lines) > 0 THEN {0} ELSE {}}

\* the user edits courselist.csv (see the note at the top of the program)
EditCourseFile ==
    /\ courselist_csv' \in EditsOf(courselist_csv)
    /\ UNCHANGED <<pc, option, session_vars, course_vars, user_vars, userlist_csv>>
    /\ UNCHANGED login_failed

Next ==
    \/ Start
    \/ InvalidOption
    \/ LoadOption
    \/ ListOption
    \/ \E id_in \in DetailsIdInputs : DetailsOption(id_in)
    \/ \E save_in \in ConfirmInputs : ExitOption(save_in)
    \/ \E id_in \in CourseIdInputs, title_in \in TitleInputs,
          credits_in \in CreditsInputs, description_in \in DescriptionInputs,
          prereq_in \in PrereqInputs, confirm_in \in ConfirmInputs :
            AddOption(id_in, title_in, credits_in, description_in, prereq_in,
                      confirm_in)
    \/ \E choice_in \in ChoiceInputs, confirm_in \in ConfirmInputs :
            DeleteOption(choice_in, confirm_in)
    \/ \E confirm_in \in ConfirmInputs : ResetOption(confirm_in)
    \/ \E username_in \in UsernameInputs, password \in PasswordInputs :
            LoginRetry(username_in, password)
    \/ \E username_in \in UsernameInputs, password \in PasswordInputs,
          id_in \in CourseIdInputs, title_in \in TitleInputs,
          credits_in \in CreditsInputs, description_in \in DescriptionInputs,
          prereq_in \in PrereqInputs, confirm_in \in ConfirmInputs :
            LoginAdd(username_in, password, id_in, title_in, credits_in,
                     description_in, prereq_in, confirm_in)
    \/ \E username_in \in UsernameInputs, password \in PasswordInputs,
          choice_in \in ChoiceInputs, confirm_in \in ConfirmInputs :
            LoginDelete(username_in, password, choice_in, confirm_in)
    \/ \E username_in \in UsernameInputs, password \in PasswordInputs,
          confirm_in \in ConfirmInputs :
            LoginReset(username_in, password, confirm_in)
    \/ \E username_in \in UsernameInputs, password \in PasswordInputs :
            AdminOption(username_in, password)
    \/ \E option_in \in UserOptionInputs : ListUsersOption(option_in)
    \/ \E option_in \in UserOptionInputs, username_in \in UsernameInputs,
          password \in NewPasswordInputs :
            AddUserOption(option_in, username_in, password)
    \/ \E option_in \in UserOptionInputs, username_in \in UsernameInputs :
            DeleteUserOption(option_in, username_in)
    \/ \E option_in \in UserOptionInputs : ReturnOption(option_in)
    \/ \E option_in \in UserOptionInputs : InvalidUserOption(option_in)
    \/ EditCourseFile

Spec == Init /\ [][Next]_vars

-----------------------------------------------------------------------------
(* Properties *)

GatedOptions == {"4", "5", "6"}

\* a typed pair the claims call a successful login: the master pair, or a
\* pair of the credential store under the lower-cased username
Accepted(username_in, password) ==
    \/ Lower(Strip(username_in)) = S_admin /\ password = S_admin
    \/ UserRow(Lower(Strip(username_in)), password) \in users

\* a step of login() that returns
LoginReturns ==
    \E username_in \in UsernameInputs, password \in PasswordInputs :
        /\ Accepted(username_in, password)
        /\ LoginReturn(option, username_in, password)

\* C1: an option that requires login (4, 5, 6) chosen while the session is
\* not authenticated changes nothing of the course store and waits at the
\* login prompt; the course store changes from there only in the step in
\* which login() returns for an accepted pair, and then the session is
\* authenticated.
C1_GatedNeedsLogin ==
    [][ /\ (~user_authenticated /\ \E opt \in GatedOptions : GateOption(opt))
           => (pc' = "login" /\ UNCHANGED course_vars)
        /\ (pc = "login" /\ course_vars' # course_vars)
           => (~user_authenticated /\ user_authenticated' /\ LoginReturns)
        /\ (pc = "login" /\ pc' = "login") => UNCHANGED course_vars
      ]_vars

\* C1 witness: the first option that required login was chosen while not
\* authenticated (user_choice was never set), login succeeded and the
\* operation wrote to the course store
C1_Witness ==
    /\ pc = "menu"
    /\ user_authenticated
    /\ user_choice = ""
    /\ in_transaction
    /\ conn_rows # course_rows

\* C2 as claimed: every add, replace or delete is committed when the
\* operation returns, and the persisted store after exit holds what the
\* session saw, whatever is answered to "save changes?".
C2_CommittedBeforeReturn ==
    [][ /\ (pc \in {"menu", "login"} /\ pc' = "menu" /\ conn_rows' # conn_rows)
           => course_rows' = conn_rows'
        /\ (pc = "menu" /\ pc' = "exited") => course_rows' = conn_rows
      ]_vars

\* C2 amended: add, replace and delete write inside the open transaction of
\* conn_courses and leave the persisted store as it was; at exit the
\* persisted store takes the content of the session exactly when the answer
\* to "save changes?" is y (after strip and lower), and stays as it was on
\* any other answer.
C2_SavedOnlyOnExitY ==
    [][ /\ (pc \in {"menu", "login"} /\ pc' = "menu" /\ in_transaction')
           => course_rows' = course_rows
        /\ \A save_in \in ConfirmInputs :
             ExitOption(save_in) =>
                course_rows' = IF Lower(Strip(save_in)) = S_y
                               THEN conn_rows ELSE course_rows
      ]_vars

\* C2 witness: a course added in an earlier session ("T U" is a title only
\* add_course writes) is in the persisted store after an exit
C2_Witness ==
    /\ pc = "exited"
    /\ \E r \in course_rows : r.title = <<84, 32, 85>>

\* a row with fewer than 4 fields somewhere in the file
HasMalformed(file) ==
    file.exists /\ \E i \in 1..Len(file.lines) : Len(file.lines[i]) < 4

\* every row has at least 4 fields and no two rows have the same id
ValidSnapshot(file) ==
    /\ file.exists
    /\ \A i \in 1..Len(file.lines) : Len(file.lines[i]) >= 4
    /\ \A i, j \in 1..Len(file.lines) :
          i # j => file.lines[i][1] # file.lines[j][1]

\* rows holds the record of the snapshot row: its first four fields
RowStored(rows, row) ==
    \E r \in rows : /\ r.id = row[1]
                    /\ r.title = row[2]
                    /\ r.credits = row[3]
                    /\ r.description = row[4]

\* rows holds one record per row of the file and nothing else
ExactlySnapshot(rows, file) ==
    /\ Cardinality(rows) = Len(file.lines)
    /\ \A i \in 1..Len(file.lines) :
          Len(file.lines[i]) >= 4 /\ RowStored(rows, file.lines[i])

\* a listing in strictly ascending id order
Ascending(listing) ==
    \A i \in 1..(Len(listing) - 1) : StrLess(listing[i][1], listing[i+1][1])

\* a step of option 1 that calls load_course_data
LoadCalled == ~data_loaded /\ LoadOption

\* a step of option 6 whose confirmation is y
ResetConfirmed ==
    \E confirm_in \in ConfirmInputs :
        /\ Lower(Strip(confirm_in)) = S_y
        /\ \/ user_authenticated /\ ResetOption(confirm_in)
           \/ \E username_in \in UsernameInputs, password \in PasswordInputs :
                 LoginReset(username_in, password, confirm_in)

\* C3: a bulk load of a snapshot with a row of fewer than 4 fields, at any
\* position, does not succeed (the loaded flag is not set, nothing reports a
\* load) and the persisted store keeps exactly the content it had when
\* load_course_data was called: the content before option 1, the empty store
\* that option 6 leaves after removing the file.  No row that precedes the
\* malformed one is kept.
C3_MalformedLoadKeepsStore ==
    /\ [](HasMalformed(courselist_csv) =>
            \A prior \in {course_rows, conn_rows, {}} :
               LET r == load_course_data(prior, courselist_csv, FALSE)
               IN  r.status # "ok" /\ r.rows = prior)
    /\ [][ HasMalformed(courselist_csv) =>
              /\ LoadCalled =>
                   /\ ~data_loaded'
                   /\ course_rows' = course_rows
                   /\ conn_rows' = conn_rows
              /\ ResetConfirmed =>
                   /\ ~data_loaded' \/ pc' = "crashed"
                   /\ course_rows' = {}
                   /\ conn_rows' = {}
         ]_vars

\* C3 witness: a load failed on a file whose first row is well formed and
\* whose second row is malformed; the store holds no row
C3_Witness ==
    /\ pc = "menu"
    /\ ~data_loaded
    /\ course_table
    /\ course_rows = {}
    /\ courselist_csv.exists
    /\ Len(courselist_csv.lines) = 2
    /\ Len(courselist_csv.lines[1]) >= 4
    /\ Len(courselist_csv.lines[2]) < 4

\* C4: a bulk load of a valid snapshot (every row at least 4 fields, ids
\* pairwise distinct) succeeds and leaves, whatever the store held, exactly
\* one record per row of the snapshot; the course listing then shows those
\* ids in strictly ascending order; loading the same snapshot again gives the
\* same store.
C4_ValidLoadReplacesStore ==
    /\ [](ValidSnapshot(courselist_csv) =>
            \A prior \in {course_rows, conn_rows} :
               LET r == load_course_data(prior, courselist_csv, FALSE)
               IN  r.status = "ok" /\ ExactlySnapshot(r.rows, courselist_csv))
    /\ [][ (ValidSnapshot(courselist_csv) /\ (LoadCalled \/ ResetConfirmed)) =>
                 /\ pc' = "menu"
                 /\ data_loaded'
                 /\ ExactlySnapshot(course_rows', courselist_csv)
                 /\ conn_rows' = course_rows'
                 /\ LET listing == print_course_list(conn_rows')
                    IN  /\ Ascending(listing)
                        /\ Len(listing) = Len(courselist_csv.lines)
                        /\ {listing[i][1] : i \in 1..Len(listing)}
                             = {courselist_csv.lines[i][1] :
                                   i \in 1..Len(courselist_csv.lines)}
                 /\ load_course_data(course_rows', courselist_csv, FALSE)
                      = [status |-> "ok", rows |-> course_rows']
         ]_vars

\* C4 witness: the snapshot "a..." then "B..." (not in id order) was loaded
C4_Witness ==
    /\ pc = "menu"
    /\ data_loaded
    /\ ~in_transaction
    /\ ValidSnapshot(courselist_csv)
    /\ Len(courselist_csv.lines) = 2
    /\ courselist_csv.lines[1][1] = <<97>>
    /\ ExactlySnapshot(course_rows, courselist_csv)
    /\ conn_rows = course_rows

\* C5 as claimed: a confirmed reset returns to the menu in one of two ways,
\* the store equal to the snapshot and the catalog flagged loaded, or the
\* store empty and the catalog flagged not loaded (malformed row or missing
\* file); and no record that is not in the snapshot is in the store
\* afterwards.
C5_ResetOutcomes ==
    [][ ResetConfirmed =>
          /\ pc' = "menu"
          /\ \/ /\ data_loaded'
                /\ courselist_csv.exists
                /\ ExactlySnapshot(course_rows', courselist_csv)
                /\ conn_rows' = course_rows'
             \/ /\ ~data_loaded'
                /\ HasMalformed(courselist_csv) \/ ~courselist_csv.exists
                /\ course_rows' = {}
                /\ conn_rows' = {}
          /\ \A r \in course_rows' \cup conn_rows' :
                \E i \in 1..Len(courselist_csv.lines) :
                    Len(courselist_csv.lines[i]) >= 4
                    /\ RowStored({r}, courselist_csv.lines[i])
      ]_vars

\* C6 as claimed: data_loaded becomes true only in a step in which
\* load_course_data succeeds, and add and delete leave the course store alone
\* while it is false.
C6_LoadedOnlyAfterLoad ==
    [][ /\ (~data_loaded /\ data_loaded') =>
             /\ LoadCalled \/ ResetConfirmed
             /\ ExactlySnapshot(course_rows', courselist_csv)
        /\ (~data_loaded /\ pc \in {"menu", "login"} /\ pc' = "menu"
              /\ ~(LoadCalled \/ ResetConfirmed))
             => UNCHANGED <<course_rows, conn_rows>>
      ]_vars

\* the typed pair is the master pair
MasterPair(username_in, password) ==
    Lower(Strip(username_in)) = S_admin /\ password = S_admin

\* C7: leaving the user management menu leaves the session not
\* authenticated at the main menu, and an option that requires login chosen
\* while not authenticated waits at the login prompt with the course store
\* untouched.
C7_ReturnLogsOut ==
    [][ /\ (pc = "admin" /\ pc' # "admin")
           => (pc' = "menu" /\ ~user_authenticated')
        /\ (pc = "menu" /\ ~user_authenticated
              /\ \E opt \in GatedOptions : GateOption(opt))
           => (pc' = "login" /\ ~user_authenticated' /\ UNCHANGED course_vars)
      ]_vars

\* C7 witness: back at the main menu from the user management menu and not
\* authenticated, with a course written earlier in the session still
\* uncommitted: the session was authenticated when the menu was entered
C7_Witness ==
    /\ pc = "menu"
    /\ ~user_authenticated
    /\ user_choice = "*"
    /\ in_transaction
    /\ conn_rows # course_rows

\* C8: the credential store changes only inside the user management menu;
\* the menu is entered only from the main menu by option "*" with the master
\* pair typed; any other pair, stored or not, authenticated before or not,
\* leaves the position, the session and both stores as they were.
C8_AdminOnlyByMasterPair ==
    [][ /\ users' # users => (pc = "admin" /\ pc' = "admin")
        /\ (pc # "admin" /\ pc' = "admin") =>
              /\ pc = "menu"
              /\ \E username_in \in UsernameInputs, password \in PasswordInputs :
                    MasterPair(username_in, password)
                    /\ AdminOption(username_in, password)
        /\ pc = "menu" =>
              \A username_in \in UsernameInputs, password \in PasswordInputs :
                 (~MasterPair(username_in, password)
                    /\ AdminOption(username_in, password))
                 => UNCHANGED <<pc, session_vars, course_vars, user_vars>>
      ]_vars

\* C8 witness: at the main menu and authenticated by a regular login, with
\* "admin" stored under the password "p" and another stored user: pairs that
\* log in and do not open the user management menu
C8_Witness ==
    /\ pc = "menu"
    /\ user_authenticated
    /\ user_choice \in GatedOptions
    /\ UserRow(S_admin, <<112>>) \in users
    /\ UserRow(<<98>>, <<112>>) \in users

\* C9: within a process, user_authenticated turns from true to false only
\* in the step that leaves the user management menu.
C9_AuthenticatedPersists ==
    [][ (/\ user_authenticated
         /\ ~user_authenticated'
         /\ pc \in {"menu", "login", "admin"}
         /\ pc' \in {"menu", "login", "admin"})
        => (pc = "admin" /\ pc' = "menu")
      ]_vars

\* C9 witness: authenticated at the main menu after an option that requires
\* login was chosen while already authenticated and the load of a reset failed
C9_Witness ==
    /\ pc = "menu"
    /\ user_authenticated
    /\ user_choice = "6"
    /\ ~data_loaded

\* C10: delete_user of any input that normalizes to "admin" leaves the
\* credential store as it is, and a stored "admin" stays stored in every
\* step.
C10_AdminNeverRemoved ==
    /\ [](\A username_in \in UsernameInputs :
             Lower(Strip(username_in)) = S_admin
             => delete_user(users, username_in) = users)
    /\ [][HasUser(users, S_admin) => HasUser(users', S_admin)]_vars

\* C10 witness: in the user management menu, "admin" is the only stored user
\* (the other user that was stored has been deleted or never added)
C10_Witness ==
    /\ pc = "admin"
    /\ users = {UserRow(S_admin, <<112>>)}

-----------------------------------------------------------------------------
(* Credential store and course operations *)

\* C11: at the login prompt a typed pair is accepted exactly when the pair
\* (username stripped and lower-cased, password) is a row of the credential
\* store or is the master pair; the master pair is accepted whatever the
\* store holds, the empty store included; a stored username typed with a
\* password that is not its stored one is not accepted, unless the pair is
\* the master pair; and the session becomes authenticated at the prompt only
\* in a step in which login() returns for an accepted pair.
C11_LoginIffStoredOrMaster ==
    /\ [](pc = "login" =>
            /\ \A username_in \in UsernameInputs, password \in PasswordInputs :
                  login(users, username_in, password)
                    <=> Accepted(username_in, password)
            /\ login(users, S_admin, S_admin)
            /\ login({}, S_admin, S_admin)
            /\ \A r \in users, password \in PasswordInputs :
                  (password # r.password
                     /\ ~(r.username = S_admin /\ password = S_admin))
                  => ~login(users, r.username, password))
    /\ [][ pc = "login" =>
              /\ user_authenticated' => LoginReturns
              /\ ~user_authenticated' => (pc' = "login" /\ UNCHANGED course_vars)
         ]_vars

\* C11 witness: at the login prompt with "b" stored under "p" and no stored
\* "admin": a stored pair, a stored username with another password and the
\* master pair can all be typed
C11_Witness ==
    /\ pc = "login"
    /\ users = {UserRow(<<98>>, <<112>>)}

\* every stored username is lower case and no two rows share a username
UsernamesNormalized(rows) ==
    /\ \A r \in rows : Lower(r.username) = r.username
    /\ \A r, q \in rows : r.username = q.username => r = q

\* C12: add_user of a username that, stripped and lower-cased, is already
\* stored leaves the credential store as it is, the stored password
\* included, whatever password is typed; of any other username it adds
\* exactly the one row (normalized username, typed password) to the
\* committed store.  In every state every stored username is lower case and
\* no two rows share a username.
C12_AddUserRejectsDuplicate ==
    [][ /\ pc = "admin" =>
              \A username_in \in UsernameInputs, password \in PasswordInputs :
                LET username == Lower(Strip(username_in))
                    after == add_user(users, username_in, password)
                IN  IF HasUser(users, username)
                    THEN after = users
                    ELSE /\ after = users \cup {UserRow(username, password)}
                         /\ Cardinality(after) = Cardinality(users) + 1
        /\ \A option_in \in UserOptionInputs, username_in \in UsernameInputs,
              password \in NewPasswordInputs :
              (pc = "admin" /\ AddUserOption(option_in, username_in, password)) =>
                 users' = IF HasUser(users, Lower(Strip(username_in)))
                          THEN users
                          ELSE users \cup {UserRow(Lower(Strip(username_in)),
                                                   password)}
        /\ UsernamesNormalized(users')
      ]_vars

\* C12 witness: in the user management menu after " Admin" and "b" were
\* added: "admin" is stored once, lower case, under the password first typed
C12_Witness ==
    /\ pc = "admin"
    /\ users = {UserRow(S_admin, <<112>>), UserRow(<<98>>, <<112>>)}

\* a snapshot row that names no prerequisites: no 5th field, or an empty one
NoPrerequisites(row) == Len(row) = 4 \/ (Len(row) > 4 /\ row[5] = <<>>)

\* C13 as claimed: a stored course that was loaded from a snapshot row
\* without prerequisites (5th field absent or empty) has "None" printed after
\* "Prerequisites: " by the course details, and the details of an id typed
\* at option 3 that finds such a course print "None".
C13_NoPrerequisitesRenderedNone ==
    (pc = "menu" /\ data_loaded /\ course_table) =>
       /\ \A r \in conn_rows, row \in CsvRows :
             (Len(row) >= 4 /\ NoPrerequisites(row) /\ r = CourseOfCsvRow(row))
             => print_course_details(r) = S_None
       /\ \A id_in \in DetailsIdInputs :
             LET d == course_details(conn_rows, id_in)
             IN  (d.status = "printed"
                    /\ \E row \in CsvRows :
                          /\ Len(row) >= 4 /\ NoPrerequisites(row)
                          /\ CourseOfCsvRow(row) \in conn_rows
                          /\ row[1] = Upper(Strip(id_in)))
                 => d.prerequisites = S_None

\* the credentials of a snapshot file: usernames stripped and lower-cased
CredentialsOf(file) ==
    {UserRow(Lower(Strip(file.lines[i][1])), file.lines[i][2]) :
        i \in 1..Len(file.lines)}

\* C14 as claimed: the start of the process fills the credential store from
\* userlist.csv exactly when user_database.db did not exist before the
\* start (the store then holds the credentials of the file), and leaves the
\* store as it was when the file existed.
C14_BootstrapOnFirstRun ==
    [][ Start =>
          IF ~user_database
          THEN userlist_csv.exists => users' = CredentialsOf(userlist_csv)
          ELSE users' = users
      ]_vars

\* credential stores over two usernames, with passwords "p", "q" and "pq"
ListedStores ==
    {rows \in SUBSET {UserRow(username, password) :
                         username \in {S_admin, <<98>>},
                         password \in {<<112>>, <<113>>, <<112, 113>>}} :
        UsernamesNormalized(rows)}

\* the usernames of a store, each with the length of its password
Shape(rows) == {<<r.username, Len(r.password)>> : r \in rows}

\* C15: the listing of the credential store shows one line per stored
\* user, in ascending username order, with the username and a mask of one
\* "*" per character of the password; any store with the same usernames and
\* password lengths gives the same listing, whatever its passwords are.
C15_ListingShowsOnlyLengths ==
    pc = "admin" =>
       LET listing == list_users(users)
       IN  /\ Len(listing) = Cardinality(users)
           /\ Ascending(listing)
           /\ \A r \in users :
                 \E i \in 1..Len(listing) :
                    /\ listing[i][1] = r.username
                    /\ Len(listing[i][2]) = Len(r.password)
                    /\ \A k \in 1..Len(listing[i][2]) : listing[i][2][k] = 42
           /\ \A other \in ListedStores :
                 Shape(other) = Shape(users) => list_users(other) = listing

\* C15 witness: the listing of the user management menu has two lines,
\* "admin" before "b", each with a mask of one character
C15_Witness ==
    /\ pc = "admin"
    /\ list_users(users) = << <<S_admin, <<42>>>>, << <<98>>, <<42>>>> >>

\* what every step that runs the operation of option opt does: it starts at
\* the menu while authenticated or at the login prompt of opt, leaves the
\* session authenticated and away from the prompt, and leaves the credential
\* store and the files alone.  The other steps of this shape are those of
\* options 1, 2, 3 and of a refused "*" after opt was the last option chosen
\* while authenticated; they change nothing while data_loaded is true.
GatedStep(opt) ==
    /\ \/ pc = "menu" /\ user_authenticated /\ user_choice' = opt
       \/ pc = "login" /\ option = opt
    /\ pc' \in {"menu", "crashed"}
    /\ user_authenticated'
    /\ UNCHANGED <<user_vars, file_vars>>

\* login() returns for option opt: LoginReturn for some accepted pair (the
\* master pair is always one)
LoginReturnsFor(opt) ==
    /\ pc = "login"
    /\ option = opt
    /\ option' = ""
    /\ UNCHANGED user_choice

\* a step in which add_course runs on the typed lines: option 4 while
\* authenticated, or the return of login() for option 4
AddRuns(id_in, title_in, credits_in, description_in, prereq_in, confirm_in) ==
    /\ GatedStep("4")
    /\ \/ /\ pc = "menu"
          /\ AddOption(id_in, title_in, credits_in, description_in, prereq_in,
                       confirm_in)
       \/ /\ LoginReturnsFor("4")
          /\ RunAdd(id_in, title_in, credits_in, description_in, prereq_in,
                    confirm_in)

\* a step in which delete_course runs on the typed lines
DeleteRuns(choice_in, confirm_in) ==
    /\ GatedStep("5")
    /\ \/ pc = "menu" /\ DeleteOption(choice_in, confirm_in)
       \/ LoginReturnsFor("5") /\ RunDelete(choice_in, confirm_in)

\* a step in which the confirmation of option 6 is asked
ResetRuns(confirm_in) ==
    /\ GatedStep("6")
    /\ \/ pc = "menu" /\ ResetOption(confirm_in)
       \/ LoginReturnsFor("6") /\ RunReset(confirm_in)

\* an answer other than Y: not "y" or "Y", blanks around it aside
Declined(confirm_in) == Lower(Strip(confirm_in)) # S_y

\* the prompts of add_course and delete_course are reached in this state
CourseOperationsRun ==
    pc \in {"menu", "login"} /\ data_loaded /\ course_table

\* C16: an answer other than Y to a confirmation prompt leaves the course
\* store (committed rows, rows of the session, open transaction) and
\* data_loaded as they were.  add_course for a stored id and delete_course
\* then write nothing and return the rows they were given (delete_course
\* also takes " Y", with a blank, as a cancel); neither operation changes
\* data_loaded or the committed rows on any answer; a step of option 6 with
\* such an answer changes nothing of the store.
C16_DeclinedChangesNothing ==
    /\ [](CourseOperationsRun =>
            \A confirm_in \in ConfirmInputs :
               (Declined(confirm_in) \/ Lower(confirm_in) # S_y) =>
                  /\ \A id_in \in CourseIdInputs, title_in \in TitleInputs,
                        credits_in \in CreditsInputs,
                        description_in \in DescriptionInputs,
                        prereq_in \in PrereqInputs :
                        (Declined(confirm_in)
                           /\ HasId(conn_rows, Upper(Strip(id_in))))
                        => add_course(conn_rows, id_in, title_in, credits_in,
                                      description_in, prereq_in, confirm_in)
                             = [rows |-> conn_rows, wrote |-> FALSE,
                                msg |-> "not replaced"]
                  /\ \A choice_in \in ChoiceInputs :
                        LET r == delete_course(conn_rows, choice_in, confirm_in)
                        IN  r.rows = conn_rows /\ ~r.wrote)
    /\ [][ /\ (CourseOperationsRun /\ (GatedStep("4") \/ GatedStep("5")))
              => UNCHANGED <<data_loaded, course_table, course_rows>>
           /\ GatedStep("6") =>
                \A confirm_in \in ConfirmInputs :
                   (Declined(confirm_in) /\ ResetRuns(confirm_in))
                   => UNCHANGED <<course_vars, data_loaded>>
         ]_vars

\* C16 witness: the last option chosen while authenticated was 4 and "B" is
\* still stored with the title of the snapshot, nothing written: the replace
\* was declined
C16_Witness ==
    /\ pc = "menu"
    /\ user_authenticated
    /\ user_choice = "4"
    /\ data_loaded
    /\ ~in_transaction
    /\ \E r \in conn_rows : r.id = <<66>> /\ r.title = <<117>>

\* the typed line selects a listed course
ValidSelection(rows, choice_in) ==
    /\ ParseInt(choice_in).ok
    /\ 1 <= ParseInt(choice_in).val
    /\ ParseInt(choice_in).val <= Cardinality(rows)

\* C17: delete_course removes a row only for a number that selects a line of
\* the listing (1..n, in id order) answered with y or Y, and then removes
\* exactly the row of that line; a line that is not a number or a number out
\* of range is answered with an "invalid" message, not with the message of a
\* cancel, and removes nothing; all other rows stay as they are.  A step of
\* option 5 removes at most one row from the rows of the session and leaves
\* the committed rows alone.
C17_DeleteRemovesSelectedOnly ==
    /\ [](CourseOperationsRun =>
            \A choice_in \in ChoiceInputs, confirm_in \in ConfirmInputs :
              LET r == delete_course(conn_rows, choice_in, confirm_in)
                  valid == ValidSelection(conn_rows, choice_in)
                  yes == Lower(confirm_in) = S_y
              IN  /\ r.rows \subseteq conn_rows
                  /\ IF valid /\ yes
                     THEN /\ conn_rows \ r.rows =
                               {q \in conn_rows :
                                  q.id = print_course_list(conn_rows)
                                             [ParseInt(choice_in).val][1]}
                          /\ Cardinality(r.rows) = Cardinality(conn_rows) - 1
                          /\ r.wrote
                          /\ r.msg = "deleted"
                     ELSE /\ r.rows = conn_rows
                          /\ ~r.wrote
                          /\ r.msg # "deleted"
                  /\ (conn_rows # {} /\ ~valid)
                     => r.msg \in {"invalid input", "invalid choice"}
                  /\ (valid /\ ~yes) => r.msg = "canceled")
    /\ [][ (CourseOperationsRun /\ GatedStep("5")) =>
              /\ course_rows' = course_rows
              /\ conn_rows' \subseteq conn_rows
              /\ Cardinality(conn_rows \ conn_rows') <= 1
              /\ conn_rows' # conn_rows => in_transaction'
         ]_vars

\* C17 witness: the last option chosen while authenticated was 5 and the
\* session sees one row less than the two committed ones
C17_Witness ==
    /\ pc = "menu"
    /\ user_choice = "5"
    /\ in_transaction
    /\ Cardinality(course_rows) = 2
    /\ Cardinality(conn_rows) = 1
    /\ conn_rows \subseteq course_rows

\* C18: with data_loaded true, add_course of an id (stripped, upper-cased)
\* that is not stored adds exactly one row: that id, the title in title
\* case, credits and description as typed, the prerequisites joined by ", "
\* ("None" for an empty line); every other row stays as it is; the lookup of
\* option 3 for the typed id, in the same session, finds exactly that row.
C18_AddThenGet ==
    [][ (data_loaded /\ course_table /\ GatedStep("4")) =>
        \A id_in \in CourseIdInputs, title_in \in TitleInputs,
          credits_in \in CreditsInputs, description_in \in DescriptionInputs,
          prereq_in \in PrereqInputs, confirm_in \in ConfirmInputs :
          (/\ ~HasId(conn_rows, Upper(Strip(id_in)))
           /\ AddRuns(id_in, title_in, credits_in, description_in, prereq_in,
                      confirm_in))
          => LET added == conn_rows' \ conn_rows
                 found == {r \in conn_rows' : r.id = Upper(Strip(id_in))}
             IN  /\ pc' = "menu"
                 /\ conn_rows \subseteq conn_rows'
                 /\ Cardinality(added) = 1
                 /\ \A r \in added :
                       /\ r.id = Upper(Strip(id_in))
                       /\ r.title = Title(title_in)
                       /\ r.credits = credits_in
                       /\ r.description = description_in
                       /\ r.prerequisites =
                            (IF prereq_in = <<>> THEN S_None
                             ELSE Join(Split(prereq_in)))
                 /\ found = added
                 /\ course_details(conn_rows', id_in) =
                      [status |-> "printed",
                       prerequisites |-> IF prereq_in = <<>> THEN S_None
                                         ELSE Join(Split(prereq_in))]
      ]_vars

\* C18 witness: "B" was added ("T U" is a title only add_course writes) next
\* to the committed row "a", and is not committed yet
C18_Witness ==
    /\ pc = "menu"
    /\ data_loaded
    /\ in_transaction
    /\ \E r \in course_rows : r.id = <<97>>
    /\ ~HasId(course_rows, <<66>>)
    /\ \E r \in conn_rows : r.id = <<66>> /\ r.title = <<84, 32, 85>>
    /\ course_rows \subseteq conn_rows

\* C19 as claimed: every stored id is upper case, no two stored rows share
\* an id, and the lookup of option 3 (which upper-cases the typed id) finds
\* every stored row when its id is typed.
C19_IdsUppercaseAndRetrievable ==
    \A rows \in {course_rows, conn_rows} :
       /\ \A r, q \in rows : r.id = q.id => r = q
       /\ \A r \in rows :
             /\ Upper(r.id) = r.id
             /\ {q \in rows : q.id = Upper(Strip(r.id))} = {r}

\* C20 as claimed: a pair rejected at the login prompt of option 4, 5 or 6
\* aborts the operation: the next position is the main menu, the session is
\* not authenticated and the course store is as it was.
C20_RejectedLoginAborts ==
    [][ (pc = "login" /\ option \in GatedOptions /\ ~user_authenticated) =>
          \A username_in \in UsernameInputs, password \in PasswordInputs :
             LoginRetry(username_in, password)
             => /\ pc' = "menu"
                /\ ~user_authenticated'
                /\ UNCHANGED course_vars
      ]_vars

=============================================================================
